---- MODULE Spec2Model ----
(***************************************************************************)
(* The frame-render controller of wezterm-gui: TermWindow::paint_impl      *)
(* (src/wezterm-gui/src/termwindow/render/paint.rs), its pass loop, the    *)
(* image-degradation ladder, the fps tracker and the animation wake-ups.   *)
(* A second part models the per-surface event handlers of WaylandState    *)
(* (src/window/src/os/wayland/state.rs).                                   *)
(*                                                                         *)
(* Option<T> is a sequence: None is <<>>, Some(x) is <<x>>.                *)
(* Instants and Durations are integers; one unit is one second.            *)
(***************************************************************************)
EXTENDS Integers, Sequences, FiniteSets, TLC

\* ---------------------------------------------------------------- bounds
\* Number of paint_pass calls of one frame the model counts exactly; the
\* loop index is held at this value afterwards (the code only tests pass == 0).
MaxPass == 6
\* The clock runs from 0 to MaxTime.
MaxTime == 2
\* Armed timers plus undelivered wake messages of the window.
MaxWakes == 2
\* Frames counted between two fps refreshes.
MaxFrames == 2
\* ClearShapeCache signals over the life of the window.
MaxGen == 1

\* Duration::from_secs(1)
OneSecond == 1

None == <<>>
Some(x) == <<x>>

\* The due instants a frame's content can ask for.
DueTimes == {1, 2}

\* enum AllowImage { Yes, Scale(usize), No }
Yes == <<"Yes">>
Scale(n) == <<"Scale", n>>
No == <<"No">>
AllowImage == {Yes, No} \cup {Scale(n) : n \in {2, 4, 8}}

\* OutOfTextureSpace { size, current_size } as paint_pass can report it.
OutOfTextureSpace == {[size |-> Some(4096), current_size |-> 2048],
                      [size |-> None, current_size |-> 2048]}

VARIABLES
  pc,                   \* position of the UI thread: "idle", "pass", "draw", "sched"
  pass,                 \* loop index of `for pass in 0..`; 0 outside the loop
  outcome,              \* how the latest paint_pass of the running frame ended; kept
                        \* until the draw call
  tally,                \* counts over the running frame's loop: paint_pass calls (builds),
                        \* retries after OutOfTextureSpace (retries, while the loop runs),
                        \* passes whose atlas recreation failed (failed), whether a pass
                        \* asked for a retry (signalled); kept until the draw call
  draws,                \* results of the call_draw calls of the running frame
  decision,             \* what lines 123-145 did at the end of the latest frame
  allow_images,         \* self.allow_images
  has_animation,        \* self.has_animation
  focused,              \* self.focused.is_some()
  scheduled_animation,  \* self.scheduled_animation
  timers,               \* spawned tasks waiting in Timer::at(due): due -> how many
  notif,                \* TermWindowNotif::Apply messages posted, not yet handled: due -> how many
  invalidated,          \* win.invalidate() asked for a repaint that has not started
  fancy_tab_bar,        \* the cached fancy tab bar is present
  modal,                \* the cached modal elements are present
  shape_generation,     \* self.shape_generation
  shape_cache,          \* shape_cache and line_to_ele_shape_cache hold entries
  dirty_rects,          \* self.dirty_rects holds rectangles
  now,                  \* Instant::now()
  start,                \* `start` of the running frame
  num_frames,           \* self.num_frames
  last_fps_check_time,  \* self.last_fps_check_time
  fps,                  \* self.fps, as <<frames, seconds>>
  last_frame_duration,  \* self.last_frame_duration
  windows               \* WaylandState.windows: window id -> the window's surface id,
                        \* last_presentation_time and current_fractional_scale

loopVars == <<pass, outcome, tally>>
wakeVars == <<scheduled_animation, timers, notif, invalidated>>
cacheVars == <<fancy_tab_bar, modal, shape_generation, shape_cache>>
fpsVars == <<num_frames, last_fps_check_time, fps>>
termVars == <<pc, loopVars, draws, decision, last_frame_duration, allow_images, has_animation,
              focused, wakeVars, cacheVars, dirty_rects, now, start, fpsVars>>
vars == <<termVars, windows>>

\* ------------------------------------------------------------- helpers
RECURSIVE SumOver(_, _)
SumOver(f, S) == IF S = {} THEN 0
                 ELSE LET d == CHOOSE x \in S : TRUE IN f[d] + SumOver(f, S \ {d})

\* Spawned timer tasks that have not yet posted their wake message.
Armed == SumOver(timers, DueTimes)

\* Wake messages waiting in the window's notification channel.
Posted == SumOver(notif, DueTimes)

\* Timers armed or fired whose wake message the UI thread has not handled.
Outstanding == Armed + Posted

Min(a, b) == IF a < b THEN a ELSE b

Kind(o) == o[1]

\* The next loop index of `for pass in 0..`.
NextPass(p) == Min(p + 1, MaxPass)

\* A faulty ladder that goes down two levels at a time.
StepDownTwoLevels(level) ==
  CASE level = Yes -> Some(Scale(4))
    [] level = Scale(2) -> Some(Scale(8))
    [] level = Scale(4) -> Some(No)
    [] level = Scale(8) -> Some(No)
    [] OTHER -> None

\* Two faulty ladders, to show that the ladder properties rest on StepDown:
\* one that never turns images off, one that skips a scale.
StepDownKeepsImages(level) ==
  CASE level = Yes -> Some(Scale(2))
    [] level = Scale(2) -> Some(Scale(4))
    [] level = Scale(4) -> Some(Scale(8))
    [] OTHER -> None

StepDownSkipsScale(level) ==
  CASE level = Yes -> Some(Scale(2))
    [] level = Scale(2) -> Some(Scale(8))
    [] level = Scale(4) -> Some(Scale(8))
    [] level = Scale(8) -> Some(No)
    [] OTHER -> None

\* The match of paint.rs:73-86: the next lower level, or None for the arm
\* `AllowImage::No | _` that leaves the loop.
StepDown(level) ==
  CASE level = Yes -> Some(Scale(2))
    [] level = Scale(2) -> Some(Scale(4))
    [] level = Scale(4) -> Some(Scale(8))
    [] level = Scale(8) -> Some(No)
    [] OTHER -> None

\* A faulty choice that asks for the wanted size on every pass.
RecreateSizeAlwaysWanted(p, e) == e.size[1]

\* The size paint.rs:60-68 hands to recreate_texture_atlas.
RecreateSize(p, e) == IF p = 0 THEN e.current_size ELSE e.size[1]

\* What paint_pass can leave in has_animation: the value it found, or a due instant.
AnimationChoices == {has_animation} \cup {Some(d) : d \in DueTimes}

\* A faulty invalidation that forgets the modal.
InvalidateTabBarOnly ==
  /\ fancy_tab_bar' = FALSE
  /\ modal' = modal

\* invalidate_fancy_tab_bar(); invalidate_modal();
InvalidateOverlays == fancy_tab_bar' = FALSE /\ modal' = FALSE

\* paint_pass (paint.rs:163-384) repaints the panes, which records dirty
\* rectangles and fills the shape caches; a pass that runs to its end has
\* painted the tab bar and the modal as well.
\* The panes' rendering writes has_animation, and paint_impl reads it after the
\* loop only (line 124): the model settles its value in the pass that leaves
\* the loop.
PaintPass(anim) ==
  /\ has_animation' = anim
  /\ dirty_rects' = TRUE

\* A faulty draw step that issues the call twice.
DrawnTwice(ok) == Append(Append(draws, ok), ok)

\* paint.rs:110: self.call_draw(frame).ok(), the call recorded with its result.
Drawn(ok) == Append(draws, ok)

\* A faulty scheduler condition that forgets the focus.
WantsWakeUnfocused == has_animation # None

\* paint.rs:123-124: the scheduler acts for a focused window whose frame left
\* an animation due instant.
WantsWake == focused /\ has_animation # None

\* A faulty comparison that lets a wake-up due at the recorded instant through.
AlreadyDueStrictly(prior, next_due) == prior # None /\ prior[1] < next_due

\* paint.rs:126-127: `Some(prior) if prior <= next_due`.
AlreadyDue(prior, next_due) == prior # None /\ prior[1] <= next_due

\* A faulty arming that starts two timers.
SpawnTimerTwice(next_due) == [timers EXCEPT ![next_due] = @ + 2]

\* A faulty arm that records the wake-up and spawns no timer for it.
SpawnTimerNever(next_due) == timers

\* paint.rs:133-135: spawn the task that awaits Timer::at(next_due).
SpawnTimer(next_due) == [timers EXCEPT ![next_due] = @ + 1]

NoTally == [builds |-> 0, retries |-> 0, failed |-> 0, signalled |-> FALSE]

\* The tally after one more paint_pass: `signal` when the pass asked for a
\* retry (texture space, stale shape cache, more quads), `retry` when the loop
\* runs again after OutOfTextureSpace, `fail` when the atlas recreation failed.
AtExit(t) == [t EXCEPT !.retries = 0]

Tallied(signal, retry, fail) ==
  [builds |-> Min(tally.builds + 1, MaxPass),
   retries |-> IF retry THEN Min(tally.retries + 1, MaxPass) ELSE tally.retries,
   failed |-> IF fail THEN Min(tally.failed + 1, MaxPass) ELSE tally.failed,
   signalled |-> tally.signalled \/ signal]

\* ---------------------------------------------------------------- Init
TermWindowInit ==
  /\ pc = "idle"
  /\ pass = 0
  /\ outcome = <<"None">>
  /\ tally = NoTally
  /\ draws = <<>>
  /\ decision = <<"None">>
  /\ allow_images = Yes
  /\ has_animation = None
  /\ focused = FALSE
  /\ scheduled_animation = None
  /\ timers = [d \in DueTimes |-> 0]
  /\ notif = [d \in DueTimes |-> 0]
  /\ invalidated = FALSE
  /\ fancy_tab_bar = FALSE
  /\ modal = FALSE
  /\ shape_generation = 0
  /\ shape_cache = FALSE
  /\ dirty_rects = FALSE
  /\ now = 0
  /\ start = 0
  /\ num_frames = 0
  /\ last_fps_check_time = 0
  /\ fps = <<0, 1>>
  /\ last_frame_duration = 0

\* state.rs:172: a new WaylandState has no windows.
Init ==
  /\ TermWindowInit
  /\ windows = <<>>

\* ------------------------------------------------------ paint_impl, start
\* A faulty start that keeps the level the previous frame ended at.
PaintBeginKeepsLevel ==
  /\ pc = "idle"
  /\ num_frames < MaxFrames
  /\ Outstanding < MaxWakes
  /\ LET n == num_frames + 1
         diff == now - last_fps_check_time
     IN IF diff > OneSecond
        THEN /\ fps' = <<n, diff>>
             /\ num_frames' = 0
             /\ last_fps_check_time' = now
        ELSE /\ num_frames' = n
             /\ UNCHANGED <<fps, last_fps_check_time>>
  /\ has_animation' = None
  /\ dirty_rects' = FALSE
  /\ start' = now
  /\ pass' = 0
  /\ outcome' = <<"None">>
  /\ tally' = NoTally
  /\ draws' = <<>>
  /\ decision' = <<"None">>
  /\ invalidated' = FALSE
  /\ pc' = "pass"
  /\ UNCHANGED <<last_frame_duration, allow_images, focused, scheduled_animation, timers,
                 notif, cacheVars, now>>
  /\ UNCHANGED windows

\* A faulty start that refreshes fps when exactly one second has elapsed.
PaintBeginAtOneSecond ==
  /\ pc = "idle"
  /\ num_frames < MaxFrames
  /\ Outstanding < MaxWakes
  /\ LET n == num_frames + 1
         diff == now - last_fps_check_time
     IN IF diff >= OneSecond
        THEN /\ fps' = <<n, diff>>
             /\ num_frames' = 0
             /\ last_fps_check_time' = now
        ELSE /\ num_frames' = n
             /\ UNCHANGED <<fps, last_fps_check_time>>
  /\ has_animation' = None
  /\ allow_images' = Yes
  /\ dirty_rects' = FALSE
  /\ start' = now
  /\ pass' = 0
  /\ outcome' = <<"None">>
  /\ tally' = NoTally
  /\ draws' = <<>>
  /\ decision' = <<"None">>
  /\ invalidated' = FALSE
  /\ pc' = "pass"
  /\ UNCHANGED <<last_frame_duration, focused, scheduled_animation, timers, notif,
                 cacheVars, now>>
  /\ UNCHANGED windows

\* A faulty start that leaves the due instant of the frame before in place.
PaintBeginKeepsDue ==
  /\ pc = "idle"
  /\ num_frames < MaxFrames
  /\ Outstanding < MaxWakes
  /\ LET n == num_frames + 1
         diff == now - last_fps_check_time
     IN IF diff > OneSecond
        THEN /\ fps' = <<n, diff>>
             /\ num_frames' = 0
             /\ last_fps_check_time' = now
        ELSE /\ num_frames' = n
             /\ UNCHANGED <<fps, last_fps_check_time>>
  /\ has_animation' = has_animation
  /\ allow_images' = Yes
  /\ dirty_rects' = FALSE
  /\ start' = now
  /\ pass' = 0
  /\ outcome' = <<"None">>
  /\ tally' = NoTally
  /\ draws' = <<>>
  /\ decision' = <<"None">>
  /\ invalidated' = FALSE
  /\ pc' = "pass"
  /\ UNCHANGED <<last_frame_duration, focused, scheduled_animation, timers, notif,
                 cacheVars, now>>
  /\ UNCHANGED windows

\* paint.rs:17-37: count the frame, reset the per-frame fields, refresh fps.
PaintBegin ==
  /\ pc = "idle"
  /\ num_frames < MaxFrames
  /\ Outstanding < MaxWakes
  /\ LET n == num_frames + 1
         diff == now - last_fps_check_time
     IN IF diff > OneSecond
        THEN /\ fps' = <<n, diff>>
             /\ num_frames' = 0
             /\ last_fps_check_time' = now
        ELSE /\ num_frames' = n
             /\ UNCHANGED <<fps, last_fps_check_time>>
  /\ has_animation' = None
  /\ allow_images' = Yes
  /\ dirty_rects' = FALSE
  /\ start' = now
  /\ pass' = 0
  /\ outcome' = <<"None">>
  /\ tally' = NoTally
  /\ draws' = <<>>
  /\ decision' = <<"None">>
  /\ invalidated' = FALSE
  /\ pc' = "pass"
  /\ UNCHANGED <<last_frame_duration, focused, scheduled_animation, timers, notif,
                 cacheVars, now>>
  /\ UNCHANGED windows

\* --------------------------------------------------- paint_impl, the loop
\* A faulty success arm that runs one more pass before it breaks.
PassOkRepeated ==
  /\ pc = "pass"
  /\ \E anim \in AnimationChoices : PaintPass(anim)
  /\ fancy_tab_bar' = TRUE /\ modal' = TRUE /\ shape_cache' = TRUE
  /\ outcome' = <<"Ok">>
  /\ IF pass = 0
     THEN /\ tally' = Tallied(FALSE, FALSE, FALSE)
          /\ pass' = NextPass(pass)
          /\ pc' = "pass"
     ELSE /\ tally' = AtExit(Tallied(FALSE, FALSE, FALSE))
          /\ pass' = 0
          /\ pc' = "draw"
  /\ UNCHANGED <<draws, decision, last_frame_duration, allow_images, focused, wakeVars,
                 shape_generation, now, start, fpsVars>>
  /\ UNCHANGED windows

\* A faulty success arm that arms the wake-up as soon as the pass has set a
\* due instant, before the draw call.
PassOkSchedulesEarly ==
  /\ pc = "pass"
  /\ \E anim \in AnimationChoices :
       /\ PaintPass(anim)
       /\ IF anim # None /\ focused
          THEN /\ scheduled_animation' = anim
               /\ timers' = SpawnTimer(anim[1])
          ELSE UNCHANGED <<scheduled_animation, timers>>
  /\ fancy_tab_bar' = TRUE /\ modal' = TRUE /\ shape_cache' = TRUE
  /\ outcome' = <<"Ok">>
  /\ tally' = AtExit(Tallied(FALSE, FALSE, FALSE))
  /\ pass' = 0
  /\ pc' = "draw"
  /\ UNCHANGED <<draws, decision, last_frame_duration, allow_images, focused, notif,
                 invalidated, shape_generation, now, start, fpsVars>>
  /\ UNCHANGED windows

\* paint.rs:40-45: the pass succeeded and allocated no more quads: break.
PassOk ==
  /\ pc = "pass"
  /\ \E anim \in AnimationChoices : PaintPass(anim)
  /\ fancy_tab_bar' = TRUE /\ modal' = TRUE /\ shape_cache' = TRUE
  /\ outcome' = <<"Ok">>
  /\ tally' = AtExit(Tallied(FALSE, FALSE, FALSE))
  /\ pass' = 0
  /\ pc' = "draw"
  /\ UNCHANGED <<draws, decision, last_frame_duration, allow_images, focused, wakeVars,
                 shape_generation, now, start, fpsVars>>
  /\ UNCHANGED windows

\* A faulty growth arm that turns images back on.
PassGrewResetsImages ==
  /\ pc = "pass"
  /\ PaintPass(has_animation)
  /\ shape_cache' = TRUE
  /\ InvalidateOverlays
  /\ outcome' = <<"Grew">>
  /\ tally' = Tallied(TRUE, FALSE, FALSE)
  /\ pass' = NextPass(pass)
  /\ allow_images' = Yes
  /\ UNCHANGED <<pc, draws, decision, last_frame_duration, focused,
                 wakeVars, shape_generation, now, start, fpsVars>>
  /\ UNCHANGED windows

\* A faulty arm that goes to the draw straight after a pass that grew the
\* quad buffers.
PassGrewBreaks ==
  /\ pc = "pass"
  /\ PaintPass(has_animation)
  /\ shape_cache' = TRUE
  /\ InvalidateOverlays
  /\ outcome' = <<"Grew">>
  /\ tally' = AtExit(Tallied(TRUE, FALSE, FALSE))
  /\ pass' = 0
  /\ pc' = "draw"
  /\ UNCHANGED <<draws, decision, last_frame_duration, allow_images, focused,
                 wakeVars, shape_generation, now, start, fpsVars>>
  /\ UNCHANGED windows

\* A faulty arm that counts a frame for every pass that grew the quad buffers.
PassGrewCountsFrame ==
  /\ pc = "pass"
  /\ PaintPass(has_animation)
  /\ shape_cache' = TRUE
  /\ InvalidateOverlays
  /\ outcome' = <<"Grew">>
  /\ tally' = Tallied(TRUE, FALSE, FALSE)
  /\ pass' = NextPass(pass)
  /\ num_frames' = Min(num_frames + 1, MaxFrames)
  /\ UNCHANGED <<pc, draws, decision, last_frame_duration, allow_images, focused,
                 wakeVars, shape_generation, now, start, last_fps_check_time, fps>>
  /\ UNCHANGED windows

\* paint.rs:41-48: the pass succeeded but allocated more quads: invalidate the
\* overlays and run another pass.
PassGrew ==
  /\ pc = "pass"
  /\ PaintPass(has_animation)
  /\ shape_cache' = TRUE
  /\ InvalidateOverlays
  /\ outcome' = <<"Grew">>
  /\ tally' = Tallied(TRUE, FALSE, FALSE)
  /\ pass' = NextPass(pass)
  /\ UNCHANGED <<pc, draws, decision, last_frame_duration, allow_images, focused,
                 wakeVars, shape_generation, now, start, fpsVars>>
  /\ UNCHANGED windows

\* paint.rs:49-52: allocated_more_quads failed: log and break.
PassQuadsErr ==
  /\ pc = "pass"
  /\ \E anim \in AnimationChoices : PaintPass(anim)
  /\ fancy_tab_bar' = TRUE /\ modal' = TRUE /\ shape_cache' = TRUE
  /\ outcome' = <<"QuadsErr">>
  /\ tally' = AtExit(Tallied(FALSE, FALSE, FALSE))
  /\ pass' = 0
  /\ pc' = "draw"
  /\ UNCHANGED <<draws, decision, last_frame_duration, allow_images, focused, wakeVars,
                 shape_generation, now, start, fpsVars>>
  /\ UNCHANGED windows

\* paint.rs:55-94: the pass ran out of texture space and names the size it
\* wants: recreate the atlas (at the current size on pass 0, at the wanted size
\* later), invalidate the overlays, and when the recreation failed step
\* allow_images down or, with nothing below it, break.
PassOutOfTexture ==
  /\ pc = "pass"
  /\ \E e \in {x \in OutOfTextureSpace : x.size # None}, ok \in BOOLEAN :
       LET next == StepDown(allow_images)
           leave == ~ok /\ next = None
       IN /\ outcome' = <<"OutOfTexture", e, RecreateSize(pass, e), ok>>
          /\ allow_images' = IF ~ok /\ next # None THEN next[1] ELSE allow_images
          /\ tally' = IF leave THEN AtExit(Tallied(TRUE, FALSE, TRUE)) ELSE Tallied(TRUE, TRUE, ~ok)
          /\ IF leave
             THEN /\ pc' = "draw"
                  /\ pass' = 0
                  /\ \E anim \in AnimationChoices : PaintPass(anim)
             ELSE /\ pc' = "pass"
                  /\ pass' = NextPass(pass)
                  /\ PaintPass(has_animation)
  /\ InvalidateOverlays
  /\ shape_cache' = TRUE
  /\ UNCHANGED <<draws, decision, last_frame_duration, focused, wakeVars,
                 shape_generation, now, start, fpsVars>>
  /\ UNCHANGED windows

\* A faulty arm that bumps the generation and leaves the shape caches filled.
PassClearShapeCacheKeepsCaches ==
  /\ pc = "pass"
  /\ shape_generation < MaxGen
  /\ PaintPass(has_animation)
  /\ InvalidateOverlays
  /\ shape_generation' = shape_generation + 1
  /\ shape_cache' = TRUE
  /\ outcome' = <<"ClearShapeCache">>
  /\ tally' = Tallied(TRUE, FALSE, FALSE)
  /\ pass' = NextPass(pass)
  /\ UNCHANGED <<pc, draws, decision, last_frame_duration, allow_images, focused,
                 wakeVars, now, start, fpsVars>>
  /\ UNCHANGED windows

\* paint.rs:95-100: the pass asked for the shape caches to be cleared.
PassClearShapeCache ==
  /\ pc = "pass"
  /\ shape_generation < MaxGen
  /\ PaintPass(has_animation)
  /\ InvalidateOverlays
  /\ shape_generation' = shape_generation + 1
  /\ shape_cache' = FALSE
  /\ outcome' = <<"ClearShapeCache">>
  /\ tally' = Tallied(TRUE, FALSE, FALSE)
  /\ pass' = NextPass(pass)
  /\ UNCHANGED <<pc, draws, decision, last_frame_duration, allow_images, focused,
                 wakeVars, now, start, fpsVars>>
  /\ UNCHANGED windows

\* A faulty last arm that invalidates the overlays before it breaks.
PassOtherFailureInvalidates ==
  /\ pc = "pass"
  /\ \E anim \in AnimationChoices : PaintPass(anim)
  /\ \E err \in {<<"Other">>} \cup
                {<<"OutOfTextureNoSize", x>> : x \in {y \in OutOfTextureSpace : y.size = None}} :
       outcome' = err
  /\ shape_cache' = TRUE
  /\ InvalidateOverlays
  /\ tally' = AtExit(Tallied(FALSE, FALSE, FALSE))
  /\ pass' = 0
  /\ pc' = "draw"
  /\ UNCHANGED <<draws, decision, last_frame_duration, allow_images, focused, wakeVars,
                 shape_generation, now, start, fpsVars>>
  /\ UNCHANGED windows

\* A faulty last arm that treats an OutOfTextureSpace without a size as one
\* with a size whose recreation failed: it steps allow_images down.
PassOtherFailureStepsDown ==
  /\ pc = "pass"
  /\ \E anim \in AnimationChoices : PaintPass(anim)
  /\ \E err \in {<<"Other">>} \cup
                {<<"OutOfTextureNoSize", x>> : x \in {y \in OutOfTextureSpace : y.size = None}} :
       /\ outcome' = err
       /\ allow_images' = IF Kind(err) = "OutOfTextureNoSize" /\ StepDown(allow_images) # None
                          THEN StepDown(allow_images)[1]
                          ELSE allow_images
  /\ shape_cache' = TRUE
  /\ tally' = AtExit(Tallied(FALSE, FALSE, FALSE))
  /\ pass' = 0
  /\ pc' = "draw"
  /\ UNCHANGED <<draws, decision, last_frame_duration, focused, wakeVars,
                 fancy_tab_bar, modal, shape_generation, now, start, fpsVars>>
  /\ UNCHANGED windows

\* paint.rs:101-104: any other error, an OutOfTextureSpace that names no size
\* included (the pattern of line 55 wants size: Some): log and break.
PassOtherFailure ==
  /\ pc = "pass"
  /\ \E anim \in AnimationChoices : PaintPass(anim)
  /\ \E err \in {<<"Other">>} \cup
                {<<"OutOfTextureNoSize", x>> : x \in {y \in OutOfTextureSpace : y.size = None}} :
       outcome' = err
  /\ shape_cache' = TRUE
  /\ tally' = AtExit(Tallied(FALSE, FALSE, FALSE))
  /\ pass' = 0
  /\ pc' = "draw"
  /\ UNCHANGED <<draws, decision, last_frame_duration, allow_images, focused, wakeVars,
                 fancy_tab_bar, modal, shape_generation, now, start, fpsVars>>
  /\ UNCHANGED windows

\* ------------------------------------------------- paint_impl, after the loop
\* A faulty draw step that gives up the frame when the draw call fails.
CallDrawPropagates ==
  /\ pc = "draw"
  /\ \E ok \in BOOLEAN :
       /\ draws' = Drawn(ok)
       /\ pc' = IF ok THEN "sched" ELSE "failed"
  /\ \E dt \in {0, OneSecond} :
       /\ now + dt <= MaxTime
       /\ now' = now + dt
       /\ last_frame_duration' = now' - start
  /\ outcome' = <<"None">>
  /\ tally' = NoTally
  /\ UNCHANGED <<pass, decision, allow_images, has_animation, focused, wakeVars,
                 cacheVars, dirty_rects, start, fpsVars>>
  /\ UNCHANGED windows

\* A faulty draw step that records the frame's duration only when the draw
\* call succeeded.
CallDrawTimesSuccessOnly ==
  /\ pc = "draw"
  /\ \E ok \in BOOLEAN, dt \in {0, OneSecond} :
       /\ draws' = Drawn(ok)
       /\ now + dt <= MaxTime
       /\ now' = now + dt
       /\ last_frame_duration' = IF ok THEN now' - start ELSE last_frame_duration
  /\ pc' = "sched"
  /\ outcome' = <<"None">>
  /\ tally' = NoTally
  /\ UNCHANGED <<pass, decision, allow_images, has_animation, focused, wakeVars,
                 cacheVars, dirty_rects, start, fpsVars>>
  /\ UNCHANGED windows

\* A faulty draw step that forgets the due instant of a frame whose loop was
\* left on an error.
CallDrawForgetsDueAfterAbort ==
  /\ pc = "draw"
  /\ \E ok \in BOOLEAN : draws' = Drawn(ok)
  /\ \E dt \in {0, OneSecond} :
       /\ now + dt <= MaxTime
       /\ now' = now + dt
       /\ last_frame_duration' = now' - start
  /\ has_animation' = IF Kind(outcome) \in {"Other", "OutOfTextureNoSize", "OutOfTexture"}
                      THEN None
                      ELSE has_animation
  /\ pc' = "sched"
  /\ outcome' = <<"None">>
  /\ tally' = NoTally
  /\ UNCHANGED <<pass, decision, allow_images, focused, wakeVars,
                 cacheVars, dirty_rects, start, fpsVars>>
  /\ UNCHANGED windows

\* paint.rs:108-118: call_draw(frame).ok(), whose result is dropped, and the
\* frame's duration. The call takes no time or a second of it.
CallDraw ==
  /\ pc = "draw"
  /\ \E ok \in BOOLEAN : draws' = Drawn(ok)
  /\ \E dt \in {0, OneSecond} :
       /\ now + dt <= MaxTime
       /\ now' = now + dt
       /\ last_frame_duration' = now' - start
  /\ pc' = "sched"
  /\ outcome' = <<"None">>
  /\ tally' = NoTally
  /\ UNCHANGED <<pass, decision, allow_images, has_animation, focused, wakeVars,
                 cacheVars, dirty_rects, start, fpsVars>>
  /\ UNCHANGED windows

\* paint.rs:123-145: arm a wake-up for the animation due instant, unless the
\* window is unfocused, nothing animates, or a wake-up no later than it is
\* recorded. Line 125 takes the recorded wake-up out; only the arm of line 130
\* puts one back. paint_impl returns.
ScheduleAnimation ==
  /\ pc = "sched"
  /\ IF WantsWake
     THEN LET next_due == has_animation[1]
              prior == scheduled_animation
          IN IF AlreadyDue(prior, next_due)
             THEN /\ scheduled_animation' = None
                  /\ decision' = <<"Deduped", prior>>
                  /\ UNCHANGED timers
             ELSE /\ scheduled_animation' = Some(next_due)
                  /\ timers' = SpawnTimer(next_due)
                  /\ decision' = <<"Armed", prior>>
     ELSE /\ decision' = <<"Skipped">>
          /\ UNCHANGED <<scheduled_animation, timers>>
  /\ pc' = "idle"
  /\ draws' = <<>>
  /\ start' = 0
  /\ UNCHANGED <<loopVars, last_frame_duration, allow_images, has_animation, focused, notif,
                 invalidated, cacheVars, dirty_rects, now, fpsVars>>
  /\ UNCHANGED windows

\* ------------------------------------------------------------ the wake-up
\* A faulty timer task that empties the record and asks for the repaint
\* itself instead of posting the message.
TimerFireMutatesWindow ==
  \E d \in DueTimes :
    /\ pc = "idle"
    /\ timers[d] > 0
    /\ now >= d
    /\ timers' = [timers EXCEPT ![d] = @ - 1]
    /\ scheduled_animation' = None
    /\ invalidated' = TRUE
    /\ UNCHANGED <<pc, loopVars, draws, decision, last_frame_duration, allow_images,
                   has_animation, focused, notif, cacheVars, dirty_rects, now, start,
                   fpsVars, windows>>

\* paint.rs:133-136: Timer::at(next_due) has elapsed; the task, which
\* promise::spawn::spawn runs on the UI thread's executor, posts
\* TermWindowNotif::Apply to the window.
TimerFire ==
  \E d \in DueTimes :
    /\ pc = "idle"
    /\ timers[d] > 0
    /\ now >= d
    /\ timers' = [timers EXCEPT ![d] = @ - 1]
    /\ notif' = [notif EXCEPT ![d] = @ + 1]
    /\ UNCHANGED <<pc, loopVars, draws, decision, last_frame_duration, allow_images,
                   has_animation, focused, scheduled_animation, invalidated, cacheVars,
                   dirty_rects, now, start, fpsVars, windows>>

\* A faulty handler that asks for the repaint and leaves the record in place.
ApplyWakeKeepsPending ==
  /\ pc = "idle"
  /\ \E d \in DueTimes :
       /\ notif[d] > 0
       /\ notif' = [notif EXCEPT ![d] = @ - 1]
  /\ invalidated' = TRUE
  /\ UNCHANGED <<pc, loopVars, draws, decision, last_frame_duration, allow_images,
                 has_animation, focused, scheduled_animation, timers, cacheVars,
                 dirty_rects, now, start, fpsVars>>
  /\ UNCHANGED windows

\* paint.rs:136-139: the UI thread runs the posted closure: take the recorded
\* wake-up out, then invalidate the window.
ApplyWake ==
  /\ pc = "idle"
  /\ \E d \in DueTimes :
       /\ notif[d] > 0
       /\ notif' = [notif EXCEPT ![d] = @ - 1]
  /\ scheduled_animation' = None
  /\ invalidated' = TRUE
  /\ UNCHANGED <<pc, loopVars, draws, decision, last_frame_duration, allow_images,
                 has_animation, focused, timers, cacheVars, dirty_rects, now, start,
                 fpsVars>>
  /\ UNCHANGED windows

\* ------------------------------------------------------------ environment
\* The clock advances between two frames.
Tick ==
  /\ now < MaxTime
  /\ pc = "idle"
  /\ now' = now + 1
  /\ UNCHANGED <<pc, loopVars, draws, decision, last_frame_duration, allow_images,
                 has_animation, focused, wakeVars, cacheVars, dirty_rects, start, fpsVars>>
  /\ UNCHANGED windows

\* The window gains or loses the focus between two frames.
FocusChange ==
  /\ pc = "idle"
  /\ focused' = ~focused
  /\ UNCHANGED <<pc, loopVars, draws, decision, last_frame_duration, allow_images,
                 has_animation, wakeVars, cacheVars, dirty_rects, now, start, fpsVars>>
  /\ UNCHANGED windows

\* One turn of the pass loop.
PassStep ==
  \/ PassOk
  \/ PassGrew
  \/ PassQuadsErr
  \/ PassOutOfTexture
  \/ PassClearShapeCache
  \/ PassOtherFailure

Next ==
  \/ PaintBegin
  \/ PassStep
  \/ CallDraw
  \/ ScheduleAnimation
  \/ TimerFire
  \/ ApplyWake
  \/ Tick
  \/ FocusChange

Spec == Init /\ [][Next]_vars

\* The UI thread does not stop inside paint_impl: the loop takes its next
\* turn, the draw call is made and the frame's end is reached.
FairSpec ==
  /\ Spec
  /\ WF_vars(PassStep)
  /\ WF_vars(CallDraw)
  /\ WF_vars(ScheduleAnimation)

\* ================================================================ claims

\* The UI thread runs what is ready: frames go on, elapsed timers post their
\* message, posted messages are handled, and time passes.
LiveSpec ==
  /\ FairSpec
  /\ WF_vars(TimerFire)
  /\ WF_vars(ApplyWake)
  /\ WF_vars(Tick)

\* The levels in the order a frame steps through them.
Ladder == <<Yes, Scale(2), Scale(4), Scale(8), No>>

Rank(level) == CHOOSE i \in 1..Len(Ladder) : Ladder[i] = level

\* Every pass of the frame so far ran out of texture space and every atlas
\* recreation failed.
AllFailed(t) == t.builds > 0 /\ t.failed = t.builds

\* C1: every paint_impl issues the draw call exactly once, however the pass
\* loop ended: no call while the loop runs or right after it, one call made
\* when the scheduler step is reached, and paint_impl returns only from there.
DrawExactlyOnce ==
  [][/\ (pc' \in {"pass", "draw"} => draws' = <<>>)
     /\ (pc' = "sched" => Len(draws') = 1)
     /\ (pc = "pass" /\ pc' # "pass" => pc' = "draw")
     /\ (pc = "draw" /\ pc' # "draw" => pc' = "sched")
     /\ (pc # "idle" /\ pc' = "idle" => pc = "sched" /\ Len(draws) = 1)]_vars

\* A frame whose loop was left with images turned off and the overlays
\* invalidated (an abort) has made its one draw call.
DrawnAfterAbort ==
  /\ pc = "sched"
  /\ Len(draws) = 1
  /\ allow_images = No
  /\ ~fancy_tab_bar

\* C2: a frame none of whose passes reported texture exhaustion, a stale shape
\* cache or more quads ran paint_pass once, and its next step is the one
\* draw call.
OneBuildOneDraw ==
  [][pc = "draw" /\ ~tally.signalled =>
       /\ tally.builds = 1
       /\ draws = <<>>
       /\ Len(draws') = 1
       /\ pc' = "sched"]_vars

CleanFrameAtDraw ==
  /\ pc = "draw"
  /\ ~tally.signalled
  /\ Kind(outcome) = "Ok"
  /\ tally.builds = 1

\* C3: within one frame at most 5 passes are retried because of
\* OutOfTextureSpace. The loop has no such limit: a recreation that succeeds
\* leaves allow_images alone and the loop runs again.
RetriesAtMostFive == tally.retries <= 5

\* C4: a frame's pass loop is always left and the draw call reached.
LoopExits == (pc = "pass") ~> (pc = "draw")

\* C5: when every pass runs out of texture space and every recreation fails,
\* the k-th paint_pass runs at the k-th level of the ladder, the loop is left
\* by the fifth and no earlier, allow_images is No from then on, and the next
\* step is the draw call.
AllFailLadder ==
  [][/\ (pc = "pass" /\ (tally.builds = 0 \/ AllFailed(tally)) /\ AllFailed(tally') =>
          /\ tally.builds < 5
          /\ allow_images = Ladder[tally.builds + 1]
          /\ (pc' = "draw" <=> tally.builds = 4)
          /\ (pc' = "draw" => allow_images' = No)
          /\ (pc' = "pass" => allow_images' = Ladder[tally.builds + 2]))
     /\ (pc = "draw" /\ AllFailed(tally) =>
          /\ tally.builds = 5
          /\ allow_images = No
          /\ allow_images' = No
          /\ Len(draws') = 1
          /\ pc' = "sched")]_vars

AllFailedAtDraw ==
  /\ pc = "draw"
  /\ AllFailed(tally)
  /\ tally.builds = 5
  /\ allow_images = No

\* StepDown applied n times to a level; None once the ladder is exhausted.
RECURSIVE StepDownTimes(_, _)
StepDownTimes(level, n) ==
  IF n = 0 THEN Some(level)
  ELSE LET before == StepDownTimes(level, n - 1)
       IN IF before = None THEN None ELSE StepDown(before[1])

\* A pass ran out of texture space and the atlas recreation failed.
RecreationFailed == pc = "pass" /\ Kind(outcome') = "OutOfTexture" /\ ~outcome'[4]

\* C6: the step down depends on the current level alone and is defined for
\* every level: Yes -> Scale(2) -> Scale(4) -> Scale(8) -> No -> exhausted.
\* Each step gives the next lower level, and from Yes the fifth step, and
\* no earlier one, is the exhaustion. Checked where the code applies it, at
\* each failed recreation: the level moves as the table says and the loop is
\* left exactly when the level was No, which is the frame's fifth failure.
StepDownTable ==
  [][RecreationFailed =>
       /\ StepDown(Yes) = Some(Scale(2))
       /\ StepDown(Scale(2)) = Some(Scale(4))
       /\ StepDown(Scale(4)) = Some(Scale(8))
       /\ StepDown(Scale(8)) = Some(No)
       /\ StepDown(No) = None
       /\ \A l \in AllowImage :
            StepDown(l) # None => Rank(StepDown(l)[1]) = Rank(l) + 1
       /\ \A n \in 0..4 : StepDownTimes(Yes, n) = Some(Ladder[n + 1])
       /\ StepDownTimes(Yes, 5) = None
       /\ Rank(allow_images) = tally.failed + 1
       /\ tally'.failed = tally.failed + 1
       /\ (allow_images # No =>
             /\ allow_images' = Ladder[Rank(allow_images) + 1]
             /\ pc' = "pass")
       /\ (allow_images = No => allow_images' = No /\ pc' = "draw")
       /\ (pc' = "draw" <=> tally'.failed = 5)]_vars

\* A step down to the lowest scale in a frame that also retried for another
\* reason.
SteppedDownAmongRetries ==
  /\ pc = "pass"
  /\ Kind(outcome) = "OutOfTexture"
  /\ ~outcome[4]
  /\ allow_images = No
  /\ tally.failed = 4
  /\ tally.builds > tally.failed

\* C7: when the window is not focused or the frame left no animation due
\* instant, the scheduler step arms no timer and leaves the recorded
\* wake-up as it was, whatever the due instant and the recorded wake-up are.
UnfocusedOrIdleArmsNothing ==
  [][pc = "sched" /\ (~focused \/ has_animation = None) =>
       UNCHANGED <<scheduled_animation, timers>>]_vars

\* An unfocused frame whose due instant is already past left the recorded
\* wake-up alone.
SkippedWithPastDue ==
  /\ pc = "idle"
  /\ decision = <<"Skipped">>
  /\ ~focused
  /\ has_animation # None
  /\ has_animation[1] < now
  /\ scheduled_animation # None
  /\ Armed = 1

\* C8: with a wake-up recorded for t1 and the window focused, a frame whose
\* due instant t2 is no earlier than t1 leaves the recorded wake-up at t1 and
\* arms no timer. The take() of paint.rs:125 empties the record on this arm.
DedupKeepsPending ==
  [][pc = "sched" /\ focused /\ has_animation # None /\ scheduled_animation # None
       /\ has_animation[1] >= scheduled_animation[1] =>
       UNCHANGED <<scheduled_animation, timers>>]_vars

\* C9: with the window focused and a due instant t2, when no wake-up is
\* recorded or the recorded one is later than t2, the frame records t2 and
\* arms exactly one timer, for t2.
EarlierDueArmsOne ==
  [][pc = "sched" /\ focused /\ has_animation # None
       /\ (scheduled_animation = None \/ has_animation[1] < scheduled_animation[1]) =>
       /\ scheduled_animation' = has_animation
       /\ timers' = [timers EXCEPT ![has_animation[1]] = @ + 1]
       /\ Armed' = Armed + 1]_vars

\* A frame replaced a recorded wake-up by an earlier one.
ArmedEarlier ==
  /\ pc = "idle"
  /\ decision = <<"Armed", Some(2)>>
  /\ scheduled_animation = Some(1)
  /\ timers[1] = 1

\* C10 as stated: a window never has more than one armed wake-up that has
\* not been handled.
AtMostOneWake == Outstanding <= 1

\* C10: timers are never cancelled, so several can be outstanding; what
\* holds is that the outstanding wake-ups grow by one at a time, only in a
\* step that records the new one, and only when nothing was recorded or the
\* new one is strictly earlier than the recorded one.
WakesGrowOnlyEarlier ==
  [][<<timers, notif>>' # <<timers, notif>> /\ Outstanding' > Outstanding =>
       /\ Outstanding' = Outstanding + 1
       /\ pc = "sched"
       /\ scheduled_animation' # None
       /\ timers'[scheduled_animation'[1]] = timers[scheduled_animation'[1]] + 1
       /\ (scheduled_animation = None \/ scheduled_animation'[1] < scheduled_animation[1])]_vars

\* A fired timer whose message waits while an earlier wake-up is armed.
TwoWakesOutstanding ==
  /\ Outstanding = 2
  /\ notif[2] = 1
  /\ timers[1] = 1
  /\ scheduled_animation = Some(1)

\* A frame starts.
FrameStarts == pc = "idle" /\ pc' = "pass"

\* C11: fps is recomputed exactly when more than one second has elapsed
\* since last_fps_check_time (one second exactly does not recompute): then,
\* and in no other case, num_frames goes back to 0 and last_fps_check_time
\* becomes the frame's start; otherwise the frame is counted and fps and
\* last_fps_check_time stay. No other step touches the three.
FpsRefreshedAfterOneSecond ==
  [][/\ (FrameStarts /\ now - last_fps_check_time > OneSecond =>
          /\ fps' = <<num_frames + 1, now - last_fps_check_time>>
          /\ num_frames' = 0
          /\ last_fps_check_time' = start'
          /\ start' = now)
     /\ (FrameStarts /\ now - last_fps_check_time <= OneSecond =>
          /\ num_frames' = num_frames + 1
          /\ UNCHANGED <<fps, last_fps_check_time>>)
     /\ (~FrameStarts => UNCHANGED fpsVars)]_vars

\* A frame that started exactly one second after the last refresh was
\* counted and left the estimate alone.
StartedAtOneSecond ==
  /\ pc = "pass"
  /\ tally.builds = 0
  /\ start - last_fps_check_time = OneSecond
  /\ num_frames = 2
  /\ fps = <<0, 1>>

\* C12: no outcome of a frame is fatal. Whatever the passes, the atlas
\* recreations, the growth query and the draw call returned, paint_impl is at
\* one of its own steps and its next step can be taken: after the loop the
\* draw call, after the draw call (failed or not) the scheduler step and the
\* return; and a frame that has just started is a fresh attempt.
NoOutcomeIsFatal ==
  /\ pc \in {"idle", "pass", "draw", "sched"}
  /\ (pc = "draw" =>
        /\ Kind(outcome) \in {"Ok", "QuadsErr", "OutOfTexture", "Other", "OutOfTextureNoSize"}
        /\ ENABLED CallDraw)
  /\ (pc = "sched" => draws \in {<<TRUE>>, <<FALSE>>} /\ ENABLED ScheduleAnimation)
  /\ (pc = "pass" /\ tally.builds = 0 =>
        /\ allow_images = Yes
        /\ has_animation = None
        /\ pass = 0
        /\ outcome = <<"None">>
        /\ draws = <<>>)

\* The draw call failed after a loop that was left with images turned off,
\* and the frame goes on to its scheduler step.
DrawFailedAfterAbort ==
  /\ pc = "sched"
  /\ draws = <<FALSE>>
  /\ allow_images = No
  /\ ~modal
  /\ focused

\* A frame has returned with the window focused and a due instant set: it
\* armed a timer or dropped the due instant for a recorded wake-up.
FrameAskedForWake == pc = "idle" /\ Kind(decision) \in {"Armed", "Deduped"}

PendingClearedBeforeRepaint == invalidated => scheduled_animation = None

\* The wake-up a frame armed for instant 1 has fired and been handled.
WakeHandled ==
  /\ pc = "idle"
  /\ invalidated
  /\ decision = <<"Armed", None>>
  /\ has_animation = Some(1)
  /\ scheduled_animation = None
  /\ Outstanding = 0

\* C15: a timer task that fires posts one message and changes nothing of
\* the window. allow_images and the frame timing fields change only inside
\* paint_impl, the recorded wake-up only in paint_impl's scheduler step or
\* in the handler of a posted message. paint_impl never waits for a timer:
\* while it runs no timer fires, no message is handled, and its next step
\* can be taken whatever is armed.
TimerOnlyPostsMessage ==
  [][/\ (pc = "idle" /\ timers' # timers =>
          /\ \E d \in DueTimes :
               /\ timers' = [timers EXCEPT ![d] = @ - 1]
               /\ notif' = [notif EXCEPT ![d] = @ + 1]
          /\ UNCHANGED <<pc, allow_images, has_animation, scheduled_animation, invalidated,
                         fpsVars, last_frame_duration, cacheVars, dirty_rects, focused>>)
     /\ (<<allow_images, fpsVars, last_frame_duration>>' # <<allow_images, fpsVars, last_frame_duration>>
           => pc # "idle" \/ pc' = "pass")
     /\ (scheduled_animation' # scheduled_animation =>
           \/ pc = "sched"
           \/ pc = "idle" /\ \E d \in DueTimes : notif' = [notif EXCEPT ![d] = @ - 1])
     /\ (pc # "idle" =>
           /\ notif' = notif
           /\ \A d \in DueTimes : timers'[d] >= timers[d]
           /\ ENABLED (PassStep \/ CallDraw \/ ScheduleAnimation))]_vars

\* The timer for instant 1 has fired and posted its message while another
\* timer is armed; the record still names instant 1.
FiredNotHandled ==
  /\ pc = "idle"
  /\ notif[1] = 1
  /\ timers[2] = 1
  /\ timers[1] = 0
  /\ scheduled_animation = Some(1)
  /\ ~invalidated

\* C16: every frame starts at AllowImage::Yes: the first paint_pass of a
\* frame runs at Yes whatever level the previous frame ended at, and the
\* level is still Yes as long as no atlas recreation of the frame failed.
FirstPassAtFull ==
  /\ (pc = "pass" /\ tally.builds = 0 => allow_images = Yes)
  /\ (pc = "pass" /\ tally.failed = 0 => allow_images = Yes)

\* A frame has ended with images turned off and the next frame can start.
NextFrameAfterDisabled ==
  /\ pc = "idle"
  /\ allow_images = No
  /\ ENABLED PaintBegin

\* The latest pass of the running frame ran out of texture space and named
\* the size it wants.
RanOutOfTexture == pc \in {"pass", "draw"} /\ Kind(outcome) = "OutOfTexture"

\* C17: on OutOfTextureSpace { size: Some(size), current_size } the atlas is
\* recreated once, at current_size exactly when the pass was the frame's
\* first (pass index 0), at size on every later pass.
ClearOnFirstPassOnly ==
  RanOutOfTexture =>
    /\ Len(outcome) = 4
    /\ outcome[2].current_size # outcome[2].size[1]
    /\ (outcome[3] = outcome[2].current_size <=> tally.builds = 1)
    /\ (outcome[3] = outcome[2].size[1] <=> tally.builds > 1)

\* The first pass had the atlas recreated at its current size, the second
\* at the wanted size.
ClearedThenGrown ==
  /\ pc = "pass"
  /\ Kind(outcome) = "OutOfTexture"
  /\ tally.builds = 2
  /\ tally.retries = 2
  /\ outcome[3] = 4096
  /\ outcome[4]

\* C18: the atlas is recreated at the wanted size only after a recreation
\* at the current size was tried earlier in the same frame, also when the
\* frame's first pass asked for a retry for another reason. A pass that
\* grows the atlas after an earlier clear is at least the second of its
\* frame to run out of texture space. The code clears on pass index 0 only,
\* so the first such pass grows at once when it is not the frame's first.
GrowOnlyAfterClear ==
  pc = "pass" /\ Kind(outcome) = "OutOfTexture" /\ outcome[3] = outcome[2].size[1] =>
    tally.retries >= 2

\* C19: an atlas recreation that fails while images are not yet turned off
\* moves allow_images down exactly one level, and the loop runs again, so
\* the next paint_pass of the frame runs at the new level. A first pass that
\* reports OutOfTextureSpace { size: 4096, current_size: 2048 } and whose
\* recreation at 2048 fails is followed by a second pass at Scale(2).
FailedRecreationStepsOneDown ==
  [][/\ (RecreationFailed /\ allow_images # No =>
          /\ Rank(allow_images') = Rank(allow_images) + 1
          /\ pc' = "pass")
     /\ (RecreationFailed /\ pass = 0 =>
          /\ outcome'[3] = outcome'[2].current_size
          /\ allow_images' = Scale(2)
          /\ pass' = 1)
     /\ (pc = "pass" /\ Kind(outcome) = "OutOfTexture" /\ ~outcome[4] =>
          /\ allow_images = Ladder[tally.failed + 1]
          /\ allow_images # Yes)]_vars

\* The second pass of the scenario is about to run at Scale(2).
SecondPassAtScaleTwo ==
  /\ pc = "pass"
  /\ pass = 1
  /\ tally.builds = 1
  /\ outcome = <<"OutOfTexture", [size |-> Some(4096), current_size |-> 2048], 2048, FALSE>>
  /\ allow_images = Scale(2)

\* C20: within a frame allow_images never moves to a higher level and
\* changes only when an atlas recreation failed: retries for more quads, for
\* a stale shape cache and after a successful recreation leave it alone, and
\* it is always one of Yes, Scale(2), Scale(4), Scale(8), No.
LevelOnlyFallsOnFailure ==
  [][/\ allow_images' \in AllowImage
     /\ (pc # "idle" /\ allow_images' # allow_images =>
          /\ RecreationFailed
          /\ Rank(allow_images') > Rank(allow_images))
     /\ (pc = "pass" /\ Kind(outcome') \in {"Grew", "ClearShapeCache"} =>
          allow_images' = allow_images)
     /\ (pc = "pass" /\ Kind(outcome') = "OutOfTexture" /\ outcome'[4] =>
          allow_images' = allow_images)]_vars

\* A retry for more quads after two failed recreations left the level at
\* Scale(4).
GrewAtScaleFour ==
  /\ pc = "pass"
  /\ Kind(outcome) = "Grew"
  /\ allow_images = Scale(4)
  /\ tally.failed = 2
  /\ tally.builds = 3

\* C21: a pass that ends in ClearShapeCache advances shape_generation by
\* exactly one, empties the shape caches, invalidates the tab bar and the
\* modal, recreates no atlas and leaves allow_images alone, and the loop runs
\* again. shape_generation never decreases and no other step changes it.
ClearShapeCacheBumpsGeneration ==
  [][/\ (pc = "pass" /\ Kind(outcome') = "ClearShapeCache" =>
          /\ shape_generation' = shape_generation + 1
          /\ ~shape_cache'
          /\ ~fancy_tab_bar' /\ ~modal'
          /\ Len(outcome') = 1
          /\ allow_images' = allow_images
          /\ pc' = "pass")
     /\ shape_generation' >= shape_generation
     /\ (shape_generation' # shape_generation =>
          pc = "pass" /\ Kind(outcome') = "ClearShapeCache")]_vars

\* The second pass of a frame asked for the shape caches to be cleared,
\* and the loop is about to run again.
ShapeCacheCleared ==
  /\ pc = "pass"
  /\ outcome = <<"ClearShapeCache">>
  /\ shape_generation = 1
  /\ ~shape_cache
  /\ ~fancy_tab_bar
  /\ ~modal
  /\ tally.builds = 2

\* C22: a pass that succeeded and allocated more quads leaves the tab bar and
\* the modal invalidated and the loop running; the draw is never reached with
\* a growth pass as the last pass.
GrowthIsAlwaysRebuilt ==
  /\ (Kind(outcome) = "Grew" => pc = "pass" /\ ~fancy_tab_bar /\ ~modal)
  /\ (pc = "draw" => Kind(outcome) # "Grew")

\* The first pass of a frame grew the quad buffers and the loop goes on.
GrewOnFirstPass ==
  /\ pc = "pass"
  /\ Kind(outcome) = "Grew"
  /\ tally.builds = 1
  /\ ~fancy_tab_bar
  /\ ~modal

\* C23: after every pass that ran out of texture space with a wanted size,
\* the tab bar and the modal are invalidated, whether the atlas was recreated
\* or not, on the first pass and on later ones, and also when the failed
\* recreation at AllowImage::No ends the loop.
OutOfTextureInvalidatesOverlays ==
  RanOutOfTexture => ~fancy_tab_bar /\ ~modal

\* The loop ended on a failed recreation at AllowImage::No after an earlier
\* pass of the same frame had not failed that way; both overlays are
\* invalidated when the draw is issued.
OverlaysInvalidatedAtTerminalFailure ==
  /\ pc = "draw"
  /\ Kind(outcome) = "OutOfTexture"
  /\ ~outcome[4]
  /\ allow_images = No
  /\ tally.builds > tally.failed
  /\ ~fancy_tab_bar
  /\ ~modal

\* C24: a pass that fails with any other error, or whose allocated_more_quads
\* query fails, ends the loop at once: the next step is the draw, no atlas is
\* recreated, allow_images and shape_generation keep their values and no
\* overlay is invalidated, and the draw that follows changes none of them.
OtherFailureAbortsLoop ==
  [][/\ (pc = "pass" /\ Kind(outcome') \in {"Other", "QuadsErr"} =>
          /\ pc' = "draw"
          /\ Len(outcome') = 1
          /\ allow_images' = allow_images
          /\ shape_generation' = shape_generation
          /\ (fancy_tab_bar => fancy_tab_bar')
          /\ (modal => modal'))
     /\ (pc = "draw" /\ Kind(outcome) \in {"Other", "QuadsErr"} =>
          /\ pc' = "sched"
          /\ Len(draws') = 1
          /\ allow_images' = allow_images
          /\ UNCHANGED cacheVars)]_vars

\* The first pass of a frame failed with another error: the loop is left with
\* the overlays still valid and the image level untouched.
AbortedOnOtherFailure ==
  /\ pc = "draw"
  /\ outcome = <<"Other">>
  /\ tally.builds = 1
  /\ fancy_tab_bar
  /\ modal
  /\ allow_images = Yes
  /\ shape_generation = 0

\* What the scheduler step decides from the focus, the frame's due instant
\* and the recorded wake-up; the result of the draw call is not among them.
DecisionKind ==
  IF ~focused \/ has_animation = None THEN "Skipped"
  ELSE IF scheduled_animation # None /\ scheduled_animation[1] <= has_animation[1]
       THEN "Deduped"
       ELSE "Armed"

\* C25: a failed draw call is swallowed. The step of the draw call records
\* last_frame_duration and goes on to the scheduler step whatever the call
\* returned, and the scheduler step decides by the focus, the due instant and
\* the recorded wake-up alone, arms a timer exactly when it decides to, and
\* returns.
DrawFailureIsSwallowed ==
  [][/\ (pc = "draw" =>
          /\ pc' = "sched"
          /\ draws' \in {<<TRUE>>, <<FALSE>>}
          /\ last_frame_duration' = now' - start
          /\ UNCHANGED <<has_animation, focused, scheduled_animation, timers>>)
     /\ (pc = "sched" =>
          /\ pc' = "idle"
          /\ Kind(decision') = DecisionKind
          /\ (DecisionKind = "Armed" =>
                /\ scheduled_animation' = has_animation
                /\ timers' = [timers EXCEPT ![has_animation[1]] = @ + 1])
          /\ (DecisionKind # "Armed" => timers' = timers))]_vars

\* The draw call failed after it took a second; the frame's duration is
\* recorded and the scheduler step is next, with a due instant to arm.
DrawFailedDurationRecorded ==
  /\ pc = "sched"
  /\ draws = <<FALSE>>
  /\ last_frame_duration = OneSecond
  /\ focused
  /\ has_animation = Some(1)
  /\ scheduled_animation = None
  /\ allow_images = Yes

\* C26: every frame counts itself once in num_frames, when it starts, however
\* many passes it takes: the start of a frame either raises num_frames by one
\* or, when it refreshes fps, divides that raised count and sets num_frames to
\* zero; no other step changes num_frames or fps.
FrameCountedOnce ==
  [][IF FrameStarts
     THEN \/ /\ num_frames' = num_frames + 1
             /\ UNCHANGED <<fps, last_fps_check_time>>
          \/ /\ num_frames' = 0
             /\ fps'[1] = num_frames + 1
             /\ last_fps_check_time' = now
     ELSE UNCHANGED fpsVars]_vars

\* The fps was refreshed from two frames counted over two seconds, the second
\* of them two passes into its loop, and the count starts again from zero.
RefreshedFromTwoFrames ==
  /\ pc = "pass"
  /\ tally.builds = 2
  /\ fps = <<2, 2>>
  /\ num_frames = 0
  /\ last_fps_check_time = 2

\* C27: has_animation is cleared when a frame starts and after that only a
\* pass sets it; a scheduler step that finds it clear touches neither the
\* recorded wake-up nor the timers, whatever earlier frames left recorded.
DueTimeClearedEachFrame ==
  [][/\ (FrameStarts => has_animation' = None)
     /\ (has_animation' # has_animation => FrameStarts \/ pc = "pass")
     /\ (pc = "sched" /\ has_animation = None =>
          /\ decision' = <<"Skipped">>
          /\ UNCHANGED <<scheduled_animation, timers, notif>>)]_vars

\* A focused frame that set no due instant has returned, and the wake-up an
\* earlier frame recorded and armed is as that frame left it.
NoDueTimeLeavesWakeAlone ==
  /\ pc = "idle"
  /\ decision = <<"Skipped">>
  /\ focused
  /\ has_animation = None
  /\ scheduled_animation = Some(2)
  /\ timers[2] = 1

\* C28: the steps of a frame come in one order: passes, then the draw call,
\* then the scheduler step, then the return. While the passes run and until
\* the draw call has been made no timer is armed, the recorded wake-up is not
\* touched and no scheduling decision is taken; the decision is taken by the
\* one scheduler step, after exactly one draw call.
PassesThenDrawThenSchedule ==
  [][/\ (pc = "pass" => pc' \in {"pass", "draw"} /\ draws' = <<>>)
     /\ (pc = "draw" => pc' = "sched" /\ draws = <<>> /\ Len(draws') = 1)
     /\ (pc \in {"pass", "draw"} =>
          /\ UNCHANGED <<scheduled_animation, timers, notif>>
          /\ decision = <<"None">>
          /\ decision' = <<"None">>)
     /\ (pc = "sched" =>
          /\ pc' = "idle"
          /\ Len(draws) = 1
          /\ decision = <<"None">>
          /\ decision' # <<"None">>)
     /\ (pc = "idle" /\ pc' = "idle" => decision' = decision)]_vars

\* The draw call of a frame has been made and its scheduler step, which will
\* arm a wake-up earlier than the recorded one, has not run yet: the recorded
\* wake-up is still that of an earlier frame.
DrawnBeforeScheduling ==
  /\ pc = "sched"
  /\ Len(draws) = 1
  /\ decision = <<"None">>
  /\ focused
  /\ has_animation = Some(1)
  /\ scheduled_animation = Some(2)
  /\ timers[1] = 0
  /\ timers[2] = 1

\* C29: no wake-up is lost. A recorded wake-up has a timer that is armed or
\* has fired with its message not yet handled; and after a frame dropped its
\* due instant for a recorded wake-up, that wake-up is no later than the due
\* instant and its timer is armed, or its message is posted, or the repaint it
\* asks for has been requested.
DedupLosesNoWake ==
  /\ (scheduled_animation # None =>
        timers[scheduled_animation[1]] + notif[scheduled_animation[1]] >= 1)
  /\ (pc = "idle" /\ Kind(decision) = "Deduped" =>
        /\ decision[2] # None
        /\ has_animation # None
        /\ decision[2][1] <= has_animation[1]
        /\ \/ timers[decision[2][1]] + notif[decision[2][1]] >= 1
           \/ invalidated)

\* A frame due at 2 dropped its due instant for the wake-up recorded at 1,
\* whose timer is still armed.
DroppedForEarlierWake ==
  /\ pc = "idle"
  /\ decision = <<"Deduped", Some(1)>>
  /\ has_animation = Some(2)
  /\ timers[1] = 1
  /\ ~invalidated

\* C30: a pass that fails with an OutOfTextureSpace that names no size is not
\* taken for one that ran out of texture space: no atlas is recreated, no
\* overlay is invalidated, allow_images and shape_generation keep their
\* values, the loop ends as for any other error and the draw call follows.
SizelessExhaustionAborts ==
  [][/\ (pc = "pass" /\ Kind(outcome') = "OutOfTextureNoSize" =>
          /\ outcome'[2] \in OutOfTextureSpace
          /\ outcome'[2].size = None
          /\ Len(outcome') = 2
          /\ pc' = "draw"
          /\ allow_images' = allow_images
          /\ UNCHANGED <<fancy_tab_bar, modal, shape_generation>>
          /\ tally'.failed = tally.failed
          /\ ~RanOutOfTexture')
     /\ (pc = "draw" /\ Kind(outcome) = "OutOfTextureNoSize" =>
          /\ pc' = "sched"
          /\ Len(draws') = 1
          /\ allow_images' = allow_images
          /\ UNCHANGED cacheVars)]_vars

\* The second pass of a frame, after one that grew the quad buffers, failed
\* with an OutOfTextureSpace without a size: the loop is left for the draw
\* with the image level at Yes and the overlays as the growth pass left them.
AbortedOnSizelessExhaustion ==
  /\ pc = "draw"
  /\ Kind(outcome) = "OutOfTextureNoSize"
  /\ outcome[2].size = None
  /\ tally.builds = 2
  /\ tally.signalled
  /\ tally.failed = 0
  /\ allow_images = Yes

\* The loop was left on an error: another error, an OutOfTextureSpace without
\* a size, or a failed recreation with no level left to step down to.
LoopAborted ==
  /\ pc = "draw"
  /\ \/ Kind(outcome) \in {"Other", "OutOfTextureNoSize"}
     \/ Kind(outcome) = "OutOfTexture" /\ ~outcome[4] /\ allow_images = No

\* C31: the scheduler step runs after every frame, also after one whose loop
\* was left on an error. The draw step that follows such a loop keeps the due
\* instant the frame's passes recorded, the focus and the recorded wake-up and
\* goes on to the scheduler step; the scheduler step, in a focused window
\* with a due instant, drops it for a recorded wake-up no later than it or
\* else records it and arms one timer for it.
SchedulerRunsAfterAbort ==
  [][/\ (LoopAborted =>
          /\ pc' = "sched"
          /\ UNCHANGED <<has_animation, focused, scheduled_animation, timers, allow_images>>)
     /\ (pc = "sched" /\ focused /\ has_animation # None =>
          /\ pc' = "idle"
          /\ Kind(decision') \in {"Deduped", "Armed"}
          /\ (Kind(decision') = "Deduped" <=> AlreadyDue(scheduled_animation, has_animation[1]))
          /\ (Kind(decision') = "Armed" =>
                /\ scheduled_animation' = has_animation
                /\ Armed' = Armed + 1
                /\ timers'[has_animation[1]] = timers[has_animation[1]] + 1))]_vars

\* A frame whose loop ended with images turned off and the overlays
\* invalidated, which only a loop left on an error does, has returned in a
\* focused window, and its scheduler step armed a timer for the due instant
\* of the pass that failed.
ArmedAfterAbortedFrame ==
  /\ pc = "idle"
  /\ Kind(decision) = "Armed"
  /\ allow_images = No
  /\ ~modal
  /\ ~fancy_tab_bar
  /\ focused
  /\ has_animation = Some(1)
  /\ scheduled_animation = Some(1)
  /\ timers[1] = 1

\* =============================================== Wayland events, state.rs
\* Windows a WaylandState holds at most, and surface ids the compositor names.
MaxWindows == 2
MaxSurface == 3

WindowIds == 1..MaxWindows
Surfaces == 1..MaxSurface

\* Fields of a Presented event: the seconds stay far below the width of u64.
TvSecHi == {0}
TvSecLo == {0, 1}
TvNsec == {999999999}

\* Preferred scales, in 120ths.
Scales == {120, 180}

\* state.rs:508-509: tv_sec = (tv_sec_hi << 32) | tv_sec_lo, then
\* tv_sec * 1_000_000_000 + tv_nsec.
PresentationTimeNs(tv_sec_hi, tv_sec_lo, tv_nsec) ==
  (tv_sec_hi * 65536 * 65536 + tv_sec_lo) * 1000000000 + tv_nsec

\* wp_presentation_feedback events, as the match of state.rs:493-548 sees them.
PresentationEvents ==
  {<<"SyncOutput">>, <<"Discarded">>, <<"Other">>} \cup
  {<<"Presented", hi, lo, ns>> : hi \in TvSecHi, lo \in TvSecLo, ns \in TvNsec}

\* wp_fractional_scale_v1 events, as the match of state.rs:349-369 sees them.
FractionalScaleEvents == {<<"Other">>} \cup {<<"PreferredScale", s>> : s \in Scales}

\* A window as WaylandState.windows holds it when it has been mapped.
NewWindow(surface_id) ==
  [surface |-> surface_id, last_presentation_time |-> None, current_fractional_scale |-> None]

\* The windows whose surface has the id of the event's surface.
Matching(surface_id) == {w \in DOMAIN windows : windows[w].surface = surface_id}

\* A faulty loop that sets the field in every window it visits.
UpdateEveryWindow(surface_id, field, value) ==
  windows' = [w \in DOMAIN windows |-> [windows[w] EXCEPT ![field] = value]]

\* state.rs:356-366 and 534-541: walk windows.values(), in the order the
\* HashMap gives them; the first window whose surface has the id gets the
\* field set, and the walk breaks.
UpdateWindowOfSurface(surface_id, field, value) ==
  IF Matching(surface_id) = {}
  THEN windows' = windows
  ELSE \E w \in Matching(surface_id) : windows' = [windows EXCEPT ![w][field] = value]

\* state.rs:484-549: the match on a wp_presentation_feedback event.
PresentationFeedbackEvent(event, surface_id) ==
  IF Kind(event) = "Presented"
  THEN UpdateWindowOfSurface(surface_id, "last_presentation_time",
                             Some(PresentationTimeNs(event[2], event[3], event[4])))
  ELSE windows' = windows

\* state.rs:340-370: the match on a wp_fractional_scale_v1 event.
FractionalScaleEvent(event, surface_id) ==
  IF Kind(event) = "PreferredScale"
  THEN UpdateWindowOfSurface(surface_id, "current_fractional_scale", Some(event[2]))
  ELSE windows' = windows

\* Dispatch<WpPresentationFeedback, WlSurface>::event.
DispatchPresentationFeedback ==
  /\ \E event \in PresentationEvents, surface_id \in Surfaces :
       PresentationFeedbackEvent(event, surface_id)
  /\ UNCHANGED termVars

\* Dispatch<WpFractionalScaleV1, WlSurface>::event.
DispatchFractionalScale ==
  /\ \E event \in FractionalScaleEvents, surface_id \in Surfaces :
       FractionalScaleEvent(event, surface_id)
  /\ UNCHANGED termVars

\* Dispatch<WpPresentation, GlobalData>::event: clk_id is not handled.
DispatchPresentation ==
  /\ UNCHANGED windows
  /\ UNCHANGED termVars

\* Dispatch<WpFractionalScaleManagerV1, GlobalData>::event: no events.
DispatchFractionalScaleManager ==
  /\ UNCHANGED windows
  /\ UNCHANGED termVars

\* The windows a WaylandState may hold when events arrive: each window has a
\* surface of its own, and no feedback has been recorded yet.
WindowMaps ==
  UNION {{[w \in D |-> NewWindow(f[w])] :
            f \in {g \in [D -> Surfaces] : \A a, b \in D : a # b => g[a] # g[b]}} :
         D \in SUBSET WindowIds}

WaylandInit ==
  /\ TermWindowInit
  /\ windows \in WindowMaps

WaylandNext ==
  \/ DispatchPresentationFeedback
  \/ DispatchFractionalScale
  \/ DispatchPresentation
  \/ DispatchFractionalScaleManager

WaylandSpec == WaylandInit /\ [][WaylandNext]_vars

\* The windows a step changed.
Changed == {w \in DOMAIN windows : windows'[w] # windows[w]}

\* What an event for the surface may do: set the field to the value in
\* one window of that surface and there only, and nothing when no window has
\* the surface.
SetsFieldOfOneWindow(surface_id, field, value) ==
  /\ DOMAIN windows' = DOMAIN windows
  /\ Cardinality(Changed) <= 1
  /\ \A w \in Changed :
       /\ windows[w].surface = surface_id
       /\ windows'[w] = [windows[w] EXCEPT ![field] = value]
  /\ (Matching(surface_id) = {} => windows' = windows)
  /\ (Matching(surface_id) # {} => \E w \in Matching(surface_id) : windows'[w][field] = value)

\* C32: a Presented event sets last_presentation_time, and a PreferredScale
\* event sets current_fractional_scale, in at most one window, one whose
\* surface has the id of the event's surface, and leaves every other window
\* and every other field as it was; when no window has that surface nothing
\* changes. Every other event of the two protocols changes no window.
SurfaceEventUpdatesOneWindow ==
  [][\A surface_id \in Surfaces :
       /\ \A event \in PresentationEvents :
            PresentationFeedbackEvent(event, surface_id) =>
              IF Kind(event) = "Presented"
              THEN SetsFieldOfOneWindow(surface_id, "last_presentation_time",
                     Some((event[2] * 65536 * 65536 + event[3]) * 1000000000 + event[4]))
              ELSE windows' = windows
       /\ \A event \in FractionalScaleEvents :
            FractionalScaleEvent(event, surface_id) =>
              IF Kind(event) = "PreferredScale"
              THEN SetsFieldOfOneWindow(surface_id, "current_fractional_scale", Some(event[2]))
              ELSE windows' = windows]_vars

\* Two windows on surfaces 1 and 2: a Presented event for surface 1 and a
\* PreferredScale event for surface 2 have each reached its own window and
\* left the other one alone.
EachEventReachedItsWindow ==
  /\ DOMAIN windows = {1, 2}
  /\ windows[1] = [surface |-> 1, last_presentation_time |-> Some(1999999999),
                   current_fractional_scale |-> None]
  /\ windows[2] = [surface |-> 2, last_presentation_time |-> None,
                   current_fractional_scale |-> Some(180)]

====
